---- MODULE Spec2Model ----
(***************************************************************************)
(* Demo Copilot: the session orchestrator (DemoCopilot), its step-driving  *)
(* workflow graph, the narration/action synchronizer and the control       *)
(* operations of the API (pause, resume, ask, stop).                       *)
(*                                                                         *)
(* One DemoCopilot object is modelled.  self.state is a reference to a     *)
(* session-state object; start_demo creates a new object each time, so the *)
(* objects live in the sequence objs and cur is the index self.state       *)
(* refers to (0 = None).  The workflow graph threads the object it was     *)
(* invoked with through its nodes.  Every asyncio task created by          *)
(* start_demo is an entry of tasks; its pc is the graph node (or routing   *)
(* function) it runs next.  Other coroutines run only where the code       *)
(* awaits something that suspends, and between two calls made by the graph *)
(* runtime.                                                                *)
(***************************************************************************)
EXTENDS Integers, Sequences, FiniteSets, TLC

VARIABLES
    objs,         \* the DemoCopilotState objects ever created by start_demo
    cur,          \* self.state: index into objs, 0 = None
    tasks,        \* the _run_workflow tasks created by start_demo
    browser,      \* BrowserController: "new", "started", "stopped"
    audio_cache,  \* VoiceEngine.audio_cache: entries [key, audio]
    disk_cache,   \* files of VoiceEngine.cache_dir: entries [key, audio]
    tts_mode,     \* speech collaborator: "absent", "ok", "failing"
    voice_id,     \* VoiceEngine.voice_id
    active,       \* session_id in active_demos
    startpc,      \* a start_demo call: "idle", or "browser_start" while awaiting browser.start()
    starts,       \* number of start_demo calls made
    asks,         \* number of ask_question calls made; the n-th call asks question n
    stopping,     \* number of stop requests suspended in cleanup()
    now,          \* datetime.utcnow()
    paused_time,  \* observer: clock ticks spent with self.state['status'] == 'paused'
    open_q,       \* observer: the oldest question asked mid-step while the session
                  \* was running and not answered since, 0 if none
    jump_target,  \* observer: the step the latest answer asked to jump to, until
                  \* the next step starts; NoStep if none
    last,         \* observer: the operation that made the latest step (the line it logs)
    tts_call,     \* observer: the latest direct call of text_to_speech and what it returned
    llm_text,     \* the outcome of the language-model call handed to handle_question
    hq_result,    \* what handle_question returned for it: <<>> before the call, <<result>> after
    copilots,     \* api.main: the DemoCopilot objects created by the start route
    active_demos, \* api.main.active_demos: the registered session ids
    served        \* observer: the latest request served by api.main and its answer

sessionVars == <<objs, cur>>
voiceVars   == <<audio_cache, disk_cache, tts_mode, voice_id>>
callVars    == <<startpc, starts, asks, stopping>>
obsVars     == <<paused_time, open_q, jump_target>>
handlerVars == <<llm_text, hq_result>>
serverVars  == <<copilots, active_demos, served>>
outerVars   == <<tts_call, handlerVars, serverVars>>
vars == <<objs, cur, tasks, browser, audio_cache, disk_cache, tts_mode, voice_id, active,
          startpc, starts, asks, stopping, now, paused_time, open_q, jump_target, last,
          tts_call, llm_text, hq_result, copilots, active_demos, served>>

----------------------------------------------------------------------------
(* Bounds *)

MaxStarts == 2
MaxAsks == 2
MaxStops == 2
MaxTime == 3
MaxSessions == 2   \* copilots the start route creates
MaxRequests == 3   \* start, status, question and control requests served

----------------------------------------------------------------------------
(* Scripts.  A name is a sequence of characters; narration is the key of   *)
(* the narration text (has_narration: the step has the key at all) and     *)
(* words its word count, len(narration.split()); browser_actions is the    *)
(* list of actions.  An action has its type, the 'duration' of a wait in   *)
(* seconds and the optional 'delay' key in seconds.                        *)

Action(type) == [type |-> type, duration |-> 0, has_delay |-> FALSE, delay |-> 0]

\* {"type": "wait", "duration": d}
WaitAction(d) == [type |-> "wait", duration |-> d, has_delay |-> FALSE, delay |-> 0]

\* an action of a custom script with its own 'delay'
DelayedAction(type, d) == [type |-> type, duration |-> 0, has_delay |-> TRUE, delay |-> d]

StepGreeting ==
    [name |-> <<"A", "b">>, has_narration |-> TRUE, narration |-> "n_greeting", words |-> 5,
     browser_actions |-> <<WaitAction(1)>>]

StepPricing ==
    [name |-> <<"B", "c">>, has_narration |-> TRUE, narration |-> "n_pricing", words |-> 5,
     browser_actions |-> <<Action("navigate"), Action("click")>>]

StepClosing ==
    [name |-> <<"c", "a">>, has_narration |-> TRUE, narration |-> "n_closing", words |-> 5,
     browser_actions |-> <<WaitAction(1)>>]

\* a step of a custom script that lacks the 'narration' key
StepNoNarration ==
    [name |-> <<"B", "c">>, has_narration |-> FALSE, narration |-> "", words |-> 0,
     browser_actions |-> <<Action("click")>>]

\* a step of a custom script with an empty narration and an action that
\* carries its own delay
StepTour ==
    [name |-> <<"x", "b">>, has_narration |-> TRUE, narration |-> "", words |-> 0,
     browser_actions |-> <<DelayedAction("scroll", 1), Action("click")>>]

\* a step of a custom script with a long narration, an action with its own
\* delay and an action of a type _execute_browser_actions does not know
StepEditor ==
    [name |-> <<"d", "e">>, has_narration |-> TRUE, narration |-> "n_editor", words |-> 60,
     browser_actions |-> <<DelayedAction("scroll", 1), Action("hover"), Action("click"),
                           Action("navigate")>>]

\* the script of the scripts table (get_full_demo), three steps long
FullDemo == <<StepGreeting, StepPricing, StepClosing>>

\* a custom_script passed to start_demo, with a malformed step
CustomDemo == <<StepGreeting, StepNoNarration, StepClosing>>

Scripts == {FullDemo, CustomDemo}

\* the scripts of the sessions: two steps, and one with a malformed step
ServerScripts == {<<StepGreeting, StepClosing>>, <<StepNoNarration>>}

\* scripts whose steps are all well-formed, one to four steps long
WalkScripts ==
    {<<StepGreeting>>,
     <<StepPricing, StepTour>>,
     <<StepEditor, StepGreeting>>,
     FullDemo,
     <<StepTour, StepClosing, StepPricing, StepGreeting>>}

\* str.lower(), per character
LowerChar(c) ==
    CASE c = "A" -> "a"
      [] c = "B" -> "b"
      [] c = "C" -> "c"
      [] OTHER -> c

Lower(s) == [i \in 1..Len(s) |-> LowerChar(s[i])]

\* Python's `sub in s` on strings
Contains(sub, s) ==
    \E i \in 0..(Len(s) - Len(sub)) : SubSeq(s, i + 1, i + Len(sub)) = sub

NoStep == -1   \* _find_step_for_feature returning None

\* for i, step in enumerate(demo_script): if feature.lower() in step['name'].lower(): return i
FindStepForFeature(feature, script) ==
    LET hits == {i \in 0..(Len(script) - 1) :
                    Contains(Lower(feature), Lower(script[i + 1].name))}
    IN  IF hits = {} THEN NoStep
        ELSE CHOOSE i \in hits : \A j \in hits : i <= j

\* Python truthiness of an Optional[int]
Truthy(n) == n # NoStep /\ n # 0

----------------------------------------------------------------------------
(* The language-model collaborator and QuestionHandler.handle_question.   *)
(* An outcome of anthropic.messages.create is an exception ("raises"),     *)
(* text that json.loads rejects ("unparsable") or a JSON object ("json")   *)
(* with its keys: has_answer / has_action say whether the key is present,  *)
(* feature_none that 'feature' is null or absent.  A response is what      *)
(* handle_question returns, read through response['answer'],               *)
(* response.get('action') and response.get('feature').                     *)

Features == {<<"a">>, <<"C">>, <<"c", "a">>, <<"x">>}

JsonOutcome(has_answer, has_action, action, feature_none, feature) ==
    [kind |-> "json", has_answer |-> has_answer, has_action |-> has_action,
     action |-> action, feature_none |-> feature_none, feature |-> feature]

LLMOutcomes ==
    {[kind |-> "raises"], [kind |-> "unparsable"]}
    \cup {JsonOutcome(TRUE, FALSE, "", TRUE, <<>>)}
    \cup {JsonOutcome(TRUE, TRUE, "continue", TRUE, <<>>)}
    \cup {JsonOutcome(TRUE, TRUE, "jump_to_feature", TRUE, <<>>)}
    \cup {JsonOutcome(TRUE, TRUE, "jump_to_feature", FALSE, f) : f \in Features}

\* _get_fallback_response
FallbackResponse ==
    [answer |-> "fallback", action |-> "continue", feature |-> <<>>, feature_none |-> TRUE]

\* _get_default_value
DefaultValue(field) ==
    CASE field = "answer" -> "default"
      [] field = "action" -> "continue"
      [] field = "intent" -> "general"
      [] field = "sentiment" -> "neutral"
      [] field = "priority" -> "normal"

\* _parse_response: json.loads, then the defaults of the required fields
\* that are missing ('feature' is not one of them)
ParseResponse(o) ==
    IF o.kind = "unparsable" THEN FallbackResponse
    ELSE [answer |-> IF o.has_answer THEN "answer" ELSE DefaultValue("answer"),
          action |-> IF o.has_action THEN o.action ELSE DefaultValue("action"),
          feature |-> IF o.feature_none THEN <<>> ELSE o.feature,
          feature_none |-> o.feature_none]

\* handle_question answering a failed call with the field defaults
DefaultsOnFailure(o) ==
    IF o.kind = "raises"
    THEN [answer |-> DefaultValue("answer"), action |-> DefaultValue("action"),
          feature |-> <<>>, feature_none |-> TRUE]
    ELSE ParseResponse(o)

\* QuestionHandler.handle_question: `except Exception` returns the fallback
HandleQuestionResponse(o) ==
    IF o.kind = "raises" THEN FallbackResponse ELSE ParseResponse(o)

Responses == {HandleQuestionResponse(o) : o \in LLMOutcomes}

\* what the question node did with an outcome of the language-model call
AnswerEvent(o, script) ==
    LET r == HandleQuestionResponse(o)
    IN  CASE o.kind = "raises" -> "answer_llm_raised"
          [] o.kind = "unparsable" -> "answer_unparsable"
          [] r.action # "jump_to_feature" -> "answer"
          [] r.feature_none -> "answer_jump_no_feature"
          [] FindStepForFeature(r.feature, script) = NoStep -> "answer_jump_no_match"
          [] OTHER -> "answer_jump"

----------------------------------------------------------------------------
(* VoiceEngine.text_to_speech: what it returns and its effect on the two   *)
(* caches.  A cache is a set of entries [key, audio]; the audio the        *)
(* generator makes for a text under a voice is the pair <<voice, text>>,   *)
(* and b"" is NoAudio.  The file name is the md5 of the key: taken to be   *)
(* one file per key.                                                       *)

DefaultVoice == "EXAV"   \* os.getenv('ELEVENLABS_VOICE_ID', "EXAVITQu4vr4xnSDxMaL")

NoAudio == <<>>

\* elevenlabs_client.generate(text=text, voice=self.voice_id, ...)
Generate(voice, text) == <<voice, text>>

\* cache_key = f"{self.voice_id}:{text}"
CacheKey(voice, text) == voice \o ":" \o text

\* cache_key in self.audio_cache, cache_file.exists()
Cached(cache, key) == \E e \in cache : e.key = key

\* self.audio_cache[cache_key], cache_file.read_bytes()
Lookup(cache, key) == (CHOOSE e \in cache : e.key = key).audio

\* the bytes text_to_speech returns
AudioReturned(cache, disk, mode, voice, text) ==
    LET key == CacheKey(voice, text)
    IN  IF mode = "absent" THEN NoAudio
        ELSE IF Cached(cache, key) THEN Lookup(cache, key)
        ELSE IF Cached(disk, key) THEN Lookup(disk, key)
        ELSE IF mode = "ok" THEN Generate(voice, text)
        ELSE NoAudio

\* the call reached elevenlabs_client.generate and it returned audio
Generated(cache, disk, mode, voice, text) ==
    LET key == CacheKey(voice, text)
    IN  mode = "ok" /\ ~Cached(cache, key) /\ ~Cached(disk, key)

\* an audio_cache that also keeps the empty result of a failed generation
MemoryCachesFailure(cache, disk, mode, voice, text) ==
    LET key == CacheKey(voice, text)
    IN  IF mode = "absent" \/ Cached(cache, key) THEN cache
        ELSE IF Cached(disk, key) THEN cache \cup {[key |-> key, audio |-> Lookup(disk, key)]}
        ELSE IF mode = "ok" THEN cache \cup {[key |-> key, audio |-> Generate(voice, text)]}
        ELSE cache \cup {[key |-> key, audio |-> NoAudio]}

\* self.audio_cache after the call
MemoryAfterTTS(cache, disk, mode, voice, text) ==
    LET key == CacheKey(voice, text)
    IN  IF mode = "absent" \/ Cached(cache, key) THEN cache
        ELSE IF Cached(disk, key) THEN cache \cup {[key |-> key, audio |-> Lookup(disk, key)]}
        ELSE IF mode = "ok" THEN cache \cup {[key |-> key, audio |-> Generate(voice, text)]}
        ELSE cache

\* the files of cache_dir after the call
FilesAfterTTS(cache, disk, mode, voice, text) ==
    IF Generated(cache, disk, mode, voice, text)
    THEN disk \cup {[key |-> CacheKey(voice, text), audio |-> Generate(voice, text)]}
    ELSE disk

CacheAfterTTS(text) == MemoryAfterTTS(audio_cache, disk_cache, tts_mode, voice_id, text)

DiskAfterTTS(text) == FilesAfterTTS(audio_cache, disk_cache, tts_mode, voice_id, text)

TextToSpeech(text) ==
    /\ audio_cache' = CacheAfterTTS(text)
    /\ disk_cache' = DiskAfterTTS(text)
    /\ UNCHANGED <<tts_mode, voice_id>>

----------------------------------------------------------------------------
(* Session-state objects and workflow tasks                                *)

NewState(script) ==
    [current_step |-> 0,
     status |-> "initialized",
     demo_script |-> script,
     messages |-> <<>>,
     errors |-> <<>>,
     has_pending_question |-> FALSE,
     pending_question |-> 0,
     started_at |-> now,
     completed_at |-> -1,
     duration_seconds |-> -1]

\* act: actions of the step dispatched so far; failed: how many of them
\* raised; elapsed: the time the latest one took until it returned or
\* raised, and pace: the pacing sleep after it, in milliseconds; lead: the
\* start_delay of the step, in milliseconds
NewTask == [pc |-> "created", obj |-> 0, step |-> 0, nar |-> "idle", act |-> 0,
            failed |-> 0, elapsed |-> 0, pace |-> 0, lead |-> 0]

TaskIds == 1..Len(tasks)

HasState == cur # 0

\* what anthropic.messages.create gave handle_question: kind "raises" (an
\* exception), "unparsable" (text json.loads rejects), "not_object" (JSON
\* that is no object) or "json" (an object with the keys `present`, its
\* 'action' and 'feature' values given when the keys are present)
LLMText(kind, present, action, feature) ==
    [kind |-> kind, present |-> present, action |-> action, feature |-> feature]

\* no direct call of text_to_speech made yet
NoCall == [voice |-> "", text |-> "", audio |-> NoAudio, generated |-> FALSE]

\* no request served yet
NoRequest == [route |-> "none", id |-> 0, code |-> 0, n |-> 0]

\* the state after DemoCopilot.__init__, the speech collaborator being in
\* one of the given modes
InitWith(modes) ==
    /\ objs = <<>>
    /\ cur = 0
    /\ tasks = <<>>
    /\ browser = "new"
    /\ audio_cache = {}
    /\ disk_cache = {}
    /\ tts_mode \in modes
    /\ voice_id = DefaultVoice
    /\ tts_call = NoCall
    /\ llm_text = LLMText("raises", {}, "", <<>>)
    /\ hq_result = <<>>
    /\ copilots = <<>>
    /\ active_demos = {}
    /\ served = NoRequest
    /\ active = FALSE
    /\ startpc = "idle"
    /\ starts = 0
    /\ asks = 0
    /\ stopping = 0
    /\ now = 0
    /\ paused_time = 0
    /\ open_q = 0
    /\ jump_target = NoStep
    /\ last = "init"

Init == InitWith({"absent", "ok"})

\* the speech collaborator absent, working, or failing on every call
InitWalk == InitWith({"absent", "ok", "failing"})

----------------------------------------------------------------------------
(* DemoCopilot.start_demo, up to `await self.browser.start()`: a new       *)
(* state object replaces self.state.  There is no check of an earlier      *)
(* start.                                                                  *)

StartDemoWith(scripts) ==
    /\ startpc = "idle"
    /\ starts < MaxStarts
    /\ \E script \in scripts :
          objs' = Append(objs, NewState(script))
    /\ cur' = Len(objs) + 1
    /\ startpc' = "browser_start"
    /\ starts' = starts + 1
    /\ last' = "start"
    /\ UNCHANGED <<outerVars, tasks, browser, voiceVars, active, asks, stopping, now, obsVars>>

StartDemo == StartDemoWith(Scripts)

\* browser.start() returned: asyncio.create_task(self._run_workflow()); the API
\* route then registers the copilot in active_demos.
StartDemoLaunch ==
    /\ startpc = "browser_start"
    /\ browser' = "started"
    /\ tasks' = Append(tasks, NewTask)
    /\ active' = TRUE
    /\ startpc' = "idle"
    /\ last' = "launch"
    /\ UNCHANGED <<outerVars, sessionVars, voiceVars, starts, asks, stopping, now, obsVars>>

\* browser.start() raised: start_demo propagates it, no task is created and
\* the API route answers 500 without registering the copilot.
StartDemoFail ==
    /\ startpc = "browser_start"
    /\ startpc' = "idle"
    /\ last' = "start_failed"
    /\ UNCHANGED <<outerVars, sessionVars, tasks, browser, voiceVars, active, starts, asks, stopping, now, obsVars>>

----------------------------------------------------------------------------
(* Control operations                                                      *)

\* if self.state: self.state['status'] = 'paused'
PauseStatus(st) == "paused"

PauseDemo ==
    /\ objs' = IF HasState
               THEN [objs EXCEPT ![cur].status = PauseStatus(objs[cur])]
               ELSE objs
    /\ last' = IF HasState THEN "pause" ELSE "pause_noop"
    /\ UNCHANGED <<outerVars, cur, tasks, browser, voiceVars, active, callVars, now, obsVars>>

\* resume_demo without its status test
ResumeStatusUnguarded(st) == "running"

\* if self.state and self.state['status'] == 'paused': self.state['status'] = 'running'
ResumeStatus(st) == IF st.status = "paused" THEN "running" ELSE st.status

\* a resume that starts the action list of the step in flight over
ResumeRestartsStep ==
    /\ objs' = IF HasState
               THEN [objs EXCEPT ![cur].status = ResumeStatus(objs[cur])]
               ELSE objs
    /\ tasks' = [t \in 1..Len(tasks) |-> [tasks[t] EXCEPT !.act = 0]]
    /\ last' = IF HasState /\ objs[cur].status = "paused" THEN "resume" ELSE "resume_noop"
    /\ UNCHANGED <<outerVars, cur, browser, voiceVars, active, callVars, now, obsVars>>

ResumeDemo ==
    /\ objs' = IF HasState
               THEN [objs EXCEPT ![cur].status = ResumeStatus(objs[cur])]
               ELSE objs
    /\ last' = IF HasState /\ objs[cur].status = "paused" THEN "resume" ELSE "resume_noop"
    /\ UNCHANGED <<outerVars, cur, tasks, browser, voiceVars, active, callVars, now, obsVars>>

\* the session is running and a step's narration/action pair is executing
AskedMidStep ==
    /\ HasState
    /\ objs[cur].status = "running"
    /\ \E t \in 1..Len(tasks) :
          tasks[t].obj = cur /\ tasks[t].pc \in {"lead_delay", "actions"}

\* an ask_question that cancels the step in flight
AskQuestionCancels ==
    /\ asks < MaxAsks
    /\ asks' = asks + 1
    /\ objs' = IF HasState
               THEN [objs EXCEPT ![cur].has_pending_question = TRUE,
                                 ![cur].pending_question = asks + 1]
               ELSE objs
    /\ tasks' = [t \in 1..Len(tasks) |->
                  IF tasks[t].pc \in {"lead_delay", "actions"}
                  THEN [tasks[t] EXCEPT !.pc = "check_questions"]
                  ELSE tasks[t]]
    /\ open_q' = IF open_q = 0 /\ AskedMidStep THEN asks + 1 ELSE open_q
    /\ last' = IF HasState THEN "ask" ELSE "ask_noop"
    /\ UNCHANGED <<outerVars, cur, browser, voiceVars, active, startpc, starts, stopping, now,
                   paused_time, jump_target>>

\* if self.state: has_pending_question = True; pending_question = question
AskQuestion ==
    /\ asks < MaxAsks
    /\ asks' = asks + 1
    /\ objs' = IF HasState
               THEN [objs EXCEPT ![cur].has_pending_question = TRUE,
                                 ![cur].pending_question = asks + 1]
               ELSE objs
    /\ open_q' = IF open_q = 0 /\ AskedMidStep THEN asks + 1 ELSE open_q
    /\ last' = IF HasState THEN "ask" ELSE "ask_noop"
    /\ UNCHANGED <<outerVars, cur, tasks, browser, voiceVars, active, startpc, starts, stopping, now,
                   paused_time, jump_target>>

\* a stop() that closes nothing
BrowserLeftOpen(b) == b

\* BrowserController.stop(): closes whatever handles are set; it never
\* resets them, so a later stop() closes them again.
BrowserAfterStop(b) == "stopped"

\* cleanup() that leaves the audio cache in place
CacheKept(c) == c

\* VoiceEngine.clear_cache(): the in-memory cache only
CacheAfterClear(c) == {}

\* control_demo, action 'stop': the session is found in active_demos and
\* the request suspends in `await copilot.cleanup()` (browser.stop()).
StopBegin ==
    /\ active
    /\ stopping < MaxStops
    /\ stopping' = stopping + 1
    /\ browser' = BrowserAfterStop(browser)
    /\ last' = "stop_begin"
    /\ UNCHANGED <<outerVars, sessionVars, tasks, voiceVars, active, startpc, starts, asks, now, obsVars>>

\* cleanup() finishes (voice.clear_cache()), then active_demos.pop(session_id, None)
\* and the request returns.
StopEnd ==
    /\ stopping > 0
    /\ stopping' = stopping - 1
    /\ audio_cache' = CacheAfterClear(audio_cache)
    /\ active' = FALSE
    /\ last' = "stop_end"
    /\ UNCHANGED <<outerVars, sessionVars, tasks, browser, disk_cache, tts_mode, voice_id, startpc, starts,
                   asks, now, obsVars>>

\* control_demo for a session id no longer in active_demos: HTTP 404 before
\* any branch is taken; the copilot is not touched.
StopNotFound ==
    /\ ~active
    /\ starts > 0
    /\ last' = "stop_not_found"
    /\ UNCHANGED <<outerVars, sessionVars, tasks, browser, voiceVars, active, callVars, now, obsVars>>

\* the clock
Tick ==
    /\ now < MaxTime
    /\ now' = now + 1
    /\ paused_time' = IF HasState /\ objs[cur].status = "paused"
                      THEN paused_time + 1
                      ELSE paused_time
    /\ last' = "tick"
    /\ UNCHANGED <<outerVars, sessionVars, tasks, browser, voiceVars, active, callVars, open_q, jump_target>>


----------------------------------------------------------------------------
(* The workflow task: _run_workflow and the nodes of the graph built by    *)
(* _build_workflow.  Obj(t) is the state object the graph was invoked      *)
(* with.                                                                   *)

Obj(t) == objs[tasks[t].obj]

StepData(t) == Obj(t).demo_script[tasks[t].step + 1]

StepMessage(t) ==
    [role |-> "assistant", text |-> StepData(t).narration, q |-> 0, step |-> tasks[t].step]

QuestionMessage(q) ==
    [role |-> "user", text |-> "question", q |-> q, step |-> -1]

AnswerMessage(answer) ==
    [role |-> "assistant", text |-> answer, q |-> 0, step |-> -1]

\* _run_workflow's handler without `errors.append(str(e))`
EscapedUnrecorded(os, e) ==
    [os EXCEPT ![cur].status = "error"]

\* `except Exception as e` of _run_workflow: the status and the error go to
\* the object self.state refers to at that moment.
Escaped(os, e) ==
    [os EXCEPT ![cur].status = "error", ![cur].errors = Append(@, e)]

\* self.state['status'] = 'running'; self.graph.ainvoke(self.state)
RunWorkflow(t) ==
    /\ tasks[t].pc = "created"
    /\ objs' = [objs EXCEPT ![cur].status = "running"]
    /\ tasks' = [tasks EXCEPT ![t].pc = "initialize", ![t].obj = cur]
    /\ last' = "workflow"
    /\ UNCHANGED <<outerVars, cur, browser, voiceVars, active, callVars, now, obsVars>>

\* node "initialize": the greeting goes to text_to_speech
InitializeDemo(t) ==
    /\ tasks[t].pc = "initialize"
    /\ TextToSpeech("greeting")
    /\ tasks' = [tasks EXCEPT ![t].pc = "execute_step"]
    /\ last' = "workflow"
    /\ UNCHANGED <<outerVars, sessionVars, browser, active, callVars, now, obsVars>>

\* a lead delay without the cap
StartDelayUncapped(words) == words * 50

\* start_delay = min(word_count * 0.05, 2.0), in milliseconds
StartDelayMs(words) == IF words * 50 < 2000 THEN words * 50 ELSE 2000

\* node "execute_step", up to the lead delay of sync_narrate_and_act: the
\* step at the cursor is read and its narration task is created.
ExecuteStep(t) ==
    /\ tasks[t].pc = "execute_step"
    /\ IF Obj(t).current_step >= Len(Obj(t).demo_script)
       THEN \* demo_script[current_step] raises IndexError outside the try
            /\ tasks' = [tasks EXCEPT ![t].pc = "cleanup"]
            /\ objs' = Escaped(objs, "IndexError")
       ELSE IF ~Obj(t).demo_script[Obj(t).current_step + 1].has_narration
       THEN \* step_data['narration'] raises KeyError inside the try
            /\ tasks' = [tasks EXCEPT ![t].pc = "check_questions",
                                      ![t].step = Obj(t).current_step]
            /\ objs' = [objs EXCEPT ![tasks[t].obj].errors = Append(@, "Step")]
       ELSE /\ tasks' = [tasks EXCEPT ![t].pc = "lead_delay",
                                      ![t].step = Obj(t).current_step,
                                      ![t].nar = "running",
                                      ![t].act = 0,
                                      ![t].failed = 0,
                                      ![t].elapsed = 0,
                                      ![t].pace = 0,
                                      ![t].lead = StartDelayMs(
                                          Obj(t).demo_script[Obj(t).current_step + 1].words)]
            /\ objs' = objs
    /\ jump_target' = NoStep
    /\ last' = "step_start"
    /\ UNCHANGED <<outerVars, cur, browser, voiceVars, active, callVars, now, paused_time, open_q>>

\* a narration task that raises when no audio could be produced
NarrationEndRaises(mode) == IF mode = "ok" THEN "done" ELSE "raised"

\* how the narration task ends: text_to_speech returns b"" when the client
\* is absent or the call fails, and narrate_and_wait returns its dict with
\* duration_ms 0
NarrationEnd(mode) == "done"

\* the narration task: VoiceEngine.narrate_and_wait
NarrateAndWait(t) ==
    /\ tasks[t].nar = "running"
    /\ TextToSpeech(StepData(t).narration)
    /\ tasks' = [tasks EXCEPT ![t].nar = NarrationEnd(tts_mode)]
    /\ last' = "narration"
    /\ UNCHANGED <<outerVars, sessionVars, browser, active, callVars, now, obsVars>>

\* the lead delay is over: the action task is created
StartActions(t) ==
    /\ tasks[t].pc = "lead_delay"
    /\ tasks' = [tasks EXCEPT ![t].pc = "actions"]
    /\ last' = "workflow"
    /\ UNCHANGED <<outerVars, sessionVars, browser, voiceVars, active, callVars, now, obsVars>>

\* estimated_duration_ms = int((word_count / 150) * 60 * 1000), for the
\* word counts of the scripts above (the float product is exact for them)
EstimatedDurationMs(words) == (words * 60 * 1000) \div 150

\* the time budget per action of _execute_browser_actions
TimePerActionMs(audio_duration_ms, n) ==
    IF audio_duration_ms > 0 /\ n > 0
    THEN (audio_duration_ms * 8) \div (10 * n)
    ELSE 500

\* the event-loop time a slow browser call takes, in milliseconds
SlowCallMs == 1000

\* a dispatcher that hands every action type to the browser
AnyActionType == {"click", "type", "navigate", "upload", "highlight", "scroll", "hover"}

\* the action types whose branch calls the browser controller
BrowserCalls == {"click", "type", "navigate", "upload", "highlight", "scroll"}

\* action_elapsed_ms: a wait sleeps its duration, a browser call returns
\* (or raises) at once or after SlowCallMs, and an unknown type is only
\* logged
ElapsedMs(action) ==
    IF action.type = "wait" THEN {action.duration * 1000}
    ELSE IF action.type \in BrowserCalls THEN {0, SlowCallMs}
    ELSE {0}

\* pace_delay_ms
PaceDelayMs(action, time_per_action_ms, action_elapsed_ms) ==
    IF action.has_delay
    THEN action.delay * 1000
    ELSE IF time_per_action_ms - action_elapsed_ms > 0
         THEN time_per_action_ms - action_elapsed_ms
         ELSE 0

\* the action the loop of _execute_browser_actions is at
NextAction(t) == StepData(t).browser_actions[tasks[t].act + 1]

\* the budget sync_narrate_and_act hands to _execute_browser_actions: the
\* estimate made from the narration text before any audio exists
StepBudgetMs(t) ==
    TimePerActionMs(EstimatedDurationMs(StepData(t).words),
                    Len(StepData(t).browser_actions))

\* the loop aborted by a failed action
IndexAfterAbort(i, n) == n

\* `except Exception: continue`: the loop goes on with the next action
IndexAfterFailure(i, n) == i + 1

\* _execute_browser_actions: one action is dispatched and returns, then
\* the pacing sleep
DispatchAction(t) ==
    /\ tasks[t].pc = "actions"
    /\ tasks[t].act < Len(StepData(t).browser_actions)
    /\ \E elapsed \in ElapsedMs(NextAction(t)) :
          tasks' = [tasks EXCEPT ![t].act = @ + 1,
                                 ![t].elapsed = elapsed,
                                 ![t].pace = PaceDelayMs(NextAction(t), StepBudgetMs(t), elapsed)]
    /\ last' = "dispatch"
    /\ UNCHANGED <<outerVars, sessionVars, browser, voiceVars, active, callVars, now, obsVars>>

\* _execute_browser_actions: the dispatched browser call raises; the
\* error is logged, the pacing sleep is skipped and the loop continues
DispatchActionFails(t) ==
    /\ tasks[t].pc = "actions"
    /\ tasks[t].act < Len(StepData(t).browser_actions)
    /\ NextAction(t).type \in BrowserCalls
    /\ \E elapsed \in ElapsedMs(NextAction(t)) :
          tasks' = [tasks EXCEPT ![t].act = IndexAfterFailure(@, Len(StepData(t).browser_actions)),
                                 ![t].failed = @ + 1,
                                 ![t].elapsed = elapsed,
                                 ![t].pace = 0]
    /\ last' = "dispatch_failed"
    /\ UNCHANGED <<outerVars, sessionVars, browser, voiceVars, active, callVars, now, obsVars>>

\* what _execute_browser_actions returns: it has no return statement and
\* collects no outcome of its actions
NoOutcomes == <<>>

ActionOutcomes(t) == NoOutcomes

\* awaiting the action task alone
ActionTaskReturned(t) ==
    tasks[t].act = Len(StepData(t).browser_actions)

\* asyncio.gather(audio_task, action_task) returned: the loop went through
\* every action and narrate_and_wait returned
GatherReturned(t) ==
    /\ tasks[t].act = Len(StepData(t).browser_actions)
    /\ tasks[t].nar = "done"

\* asyncio.gather(audio_task, action_task) returned; the step's message is
\* appended and the node returns
FinishStep(t) ==
    /\ tasks[t].pc = "actions"
    /\ GatherReturned(t)
    /\ objs' = [objs EXCEPT ![tasks[t].obj].messages = Append(@, StepMessage(t))]
    /\ tasks' = [tasks EXCEPT ![t].pc = "check_questions", ![t].nar = "idle", ![t].act = 0,
                               ![t].failed = 0, ![t].elapsed = 0, ![t].pace = 0,
                               ![t].lead = 0]
    /\ last' = "workflow"
    /\ UNCHANGED <<outerVars, cur, browser, voiceVars, active, callVars, now, obsVars>>

\* node "check_questions": state['metadata']['has_pending_question'] = False
PendingAfterCheck(st) == FALSE

CheckForQuestions(t) ==
    /\ tasks[t].pc = "check_questions"
    /\ objs' = [objs EXCEPT ![tasks[t].obj].has_pending_question = PendingAfterCheck(Obj(t))]
    /\ tasks' = [tasks EXCEPT ![t].pc = "route_questions"]
    /\ last' = "workflow"
    /\ UNCHANGED <<outerVars, cur, browser, voiceVars, active, callVars, now, obsVars>>

\* routing function _should_handle_question
ShouldHandleQuestion(st) ==
    IF st.has_pending_question THEN "handle_question" ELSE "next_step"

RouteQuestions(t) ==
    /\ tasks[t].pc = "route_questions"
    /\ tasks' = [tasks EXCEPT ![t].pc = ShouldHandleQuestion(Obj(t))]
    /\ last' = "workflow"
    /\ UNCHANGED <<outerVars, sessionVars, browser, voiceVars, active, callVars, now, obsVars>>

\* the jump without `if new_step:`
CursorAfterAnswerUnchecked(st, r) ==
    IF r.action = "jump_to_feature"
    THEN FindStepForFeature(r.feature, st.demo_script)
    ELSE st.current_step

\* the cursor after _handle_question's jump: `if new_step: current_step = new_step`
CursorAfterAnswer(st, r) ==
    IF r.action = "jump_to_feature"
       /\ Truthy(FindStepForFeature(r.feature, st.demo_script))
    THEN FindStepForFeature(r.feature, st.demo_script)
    ELSE st.current_step

\* the step a response asks to jump to: a step of the script that the
\* requested feature names
JumpRequested(st, r) ==
    IF r.action = "jump_to_feature" /\ ~r.feature_none
    THEN FindStepForFeature(r.feature, st.demo_script)
    ELSE NoStep

\* node "handle_question".  feature.lower() raises AttributeError when the
\* response asks for a jump and carries no feature; the exception escapes
\* the graph after the answer was handed to text_to_speech.
HandleQuestion(t) ==
    /\ tasks[t].pc = "handle_question"
    /\ \E o \in LLMOutcomes :
        LET r == HandleQuestionResponse(o) IN
          /\ last' = AnswerEvent(o, Obj(t).demo_script)
          /\ open_q' = IF Obj(t).pending_question = open_q THEN 0 ELSE open_q
          /\ jump_target' = JumpRequested(Obj(t), r)
          /\ TextToSpeech(r.answer)
          /\ IF r.action = "jump_to_feature" /\ r.feature_none
             THEN /\ objs' = Escaped(objs, "AttributeError")
                  /\ tasks' = [tasks EXCEPT ![t].pc = "cleanup"]
             ELSE /\ objs' = [objs EXCEPT ![tasks[t].obj] =
                                [@ EXCEPT !.current_step = CursorAfterAnswer(Obj(t), r),
                                          !.messages = @ \o <<QuestionMessage(Obj(t).pending_question),
                                                              AnswerMessage(r.answer)>>,
                                          !.has_pending_question = FALSE,
                                          !.pending_question = 0]]
                  /\ tasks' = [tasks EXCEPT ![t].pc = "check_questions"]
    /\ UNCHANGED <<outerVars, cur, browser, active, callVars, now, paused_time>>

\* a next_step that skips a step
CursorAfterSkip(st) == st.current_step + 2

\* a next_step that starts the script over
CursorAfterRestart(st) == 0

\* node "next_step": state['current_step'] += 1
CursorAfterAdvance(st) == st.current_step + 1

AdvanceToNextStep(t) ==
    /\ tasks[t].pc = "next_step"
    /\ objs' = [objs EXCEPT ![tasks[t].obj].current_step = CursorAfterAdvance(Obj(t))]
    /\ tasks' = [tasks EXCEPT ![t].pc = "route_continue"]
    /\ last' = "advance"
    /\ UNCHANGED <<outerVars, cur, browser, voiceVars, active, callVars, now, obsVars>>

\* a routing that does not look at the errors
ShouldContinueUnchecked(st) ==
    IF st.current_step >= Len(st.demo_script) THEN "complete" ELSE "execute_step"

\* routing function _should_continue
ShouldContinue(st) ==
    IF st.errors # <<>> THEN "error_handler"
    ELSE IF st.current_step >= Len(st.demo_script) THEN "complete"
    ELSE "execute_step"

RouteContinue(t) ==
    /\ tasks[t].pc = "route_continue"
    /\ tasks' = [tasks EXCEPT ![t].pc = ShouldContinue(Obj(t))]
    /\ last' = "workflow"
    /\ UNCHANGED <<outerVars, sessionVars, browser, voiceVars, active, callVars, now, obsVars>>

\* _complete_demo: duration = (completed - started).total_seconds()
Duration(started, completed) == completed - started

\* an edge from the node back into the step loop
EdgeIntoLoop(node) == "execute_step"

\* workflow.add_edge("complete", END), workflow.add_edge("error_handler", END):
\* ainvoke returns and _run_workflow goes to its finally
EdgeToEnd(node) == "cleanup"

\* node "complete"
CompleteDemo(t) ==
    /\ tasks[t].pc = "complete"
    /\ objs' = [objs EXCEPT ![tasks[t].obj] =
                  [@ EXCEPT !.status = "completed",
                            !.completed_at = now,
                            !.duration_seconds = Duration(Obj(t).started_at, now)]]
    /\ tasks' = [tasks EXCEPT ![t].pc = EdgeToEnd("complete")]
    /\ last' = "complete"
    /\ UNCHANGED <<outerVars, cur, browser, voiceVars, active, callVars, now, obsVars>>

\* node "error_handler"
HandleError(t) ==
    /\ tasks[t].pc = "error_handler"
    /\ objs' = [objs EXCEPT ![tasks[t].obj].status = "error"]
    /\ tasks' = [tasks EXCEPT ![t].pc = EdgeToEnd("error_handler")]
    /\ last' = "workflow"
    /\ UNCHANGED <<outerVars, cur, browser, voiceVars, active, callVars, now, obsVars>>

\* `finally: await self.cleanup()`: browser.stop() ...
CleanupBrowser(t) ==
    /\ tasks[t].pc = "cleanup"
    /\ browser' = BrowserAfterStop(browser)
    /\ tasks' = [tasks EXCEPT ![t].pc = "clear_cache"]
    /\ last' = "cleanup"
    /\ UNCHANGED <<outerVars, sessionVars, voiceVars, active, callVars, now, obsVars>>

\* ... then voice.clear_cache(); the task ends
CleanupCache(t) ==
    /\ tasks[t].pc = "clear_cache"
    /\ audio_cache' = CacheAfterClear(audio_cache)
    /\ tasks' = [tasks EXCEPT ![t].pc = "done"]
    /\ last' = "cleanup"
    /\ UNCHANGED <<outerVars, sessionVars, browser, disk_cache, tts_mode, voice_id, active, callVars, now, obsVars>>

----------------------------------------------------------------------------
(* Specifications                                                          *)

\* the steps of the workflow task other than the question node
Steps ==
    \/ \E t \in TaskIds : RunWorkflow(t)
    \/ \E t \in TaskIds : InitializeDemo(t)
    \/ \E t \in TaskIds : ExecuteStep(t)
    \/ \E t \in TaskIds : NarrateAndWait(t)
    \/ \E t \in TaskIds : StartActions(t)
    \/ \E t \in TaskIds : DispatchAction(t)
    \/ \E t \in TaskIds : FinishStep(t)
    \/ \E t \in TaskIds : CheckForQuestions(t)
    \/ \E t \in TaskIds : RouteQuestions(t)
    \/ \E t \in TaskIds : AdvanceToNextStep(t)
    \/ \E t \in TaskIds : RouteContinue(t)
    \/ \E t \in TaskIds : CompleteDemo(t)
    \/ \E t \in TaskIds : HandleError(t)
    \/ \E t \in TaskIds : CleanupBrowser(t)
    \/ \E t \in TaskIds : CleanupCache(t)

Answer == \E t \in TaskIds : HandleQuestion(t)

\* a browser call of a step's action list raises
Failure == \E t \in TaskIds : DispatchActionFails(t)

\* the first start_demo of the copilot (the API route makes one per copilot)
FirstStart == starts = 0 /\ StartDemo

\* start_demo called again on the same copilot
Restart == starts > 0 /\ StartDemo

Control ==
    \/ StartDemoLaunch
    \/ StartDemoFail
    \/ PauseDemo
    \/ ResumeDemo
    \/ AskQuestion
    \/ StopBegin
    \/ StopEnd
    \/ StopNotFound

\* one session driven through the API and the copilot's control methods,
\* the clock standing still
Next == FirstStart \/ Control \/ Steps \/ Answer \/ Failure

Spec == Init /\ [][Next]_vars

\* one session with pause and resume while the clock runs
NextTime ==
    \/ FirstStart
    \/ StartDemoLaunch
    \/ PauseDemo
    \/ ResumeDemo
    \/ Tick
    \/ Steps

SpecTime == Init /\ [][NextTime]_vars

\* start_demo called more than once on one copilot
NextRestart ==
    \/ FirstStart
    \/ Restart
    \/ StartDemoLaunch
    \/ PauseDemo
    \/ Steps

SpecRestart == Init /\ [][NextRestart]_vars

\* the first start_demo, with any of the scripts
WalkStart == starts = 0 /\ StartDemoWith(WalkScripts \cup Scripts \cup ServerScripts)

\* one uninterrupted walkthrough in which every action succeeds: no
\* question, pause or stop.  The event loop runs every task that is ready
\* and every sleep and collaborator call returns.
NextScenario ==
    \/ WalkStart
    \/ StartDemoLaunch
    \/ Steps

SpecScenario == InitWalk /\ [][NextScenario]_vars /\ WF_vars(NextScenario)

\* one uninterrupted walkthrough in which browser calls may raise
NextWalk ==
    \/ WalkStart
    \/ StartDemoLaunch
    \/ Steps
    \/ Failure

SpecWalk == InitWalk /\ [][NextWalk]_vars /\ WF_vars(NextWalk)

\* one walkthrough in which browser calls may raise and the customer asks
\* questions; the event loop runs every task that is ready
NextAsk ==
    \/ WalkStart
    \/ StartDemoLaunch
    \/ Steps
    \/ Failure
    \/ AskQuestion
    \/ Answer

SpecAsk == InitWalk /\ [][NextAsk]_vars /\ WF_vars(NextAsk)

----------------------------------------------------------------------------
(* Properties                                                              *)

\* the session state self.state refers to
Status == IF HasState THEN objs[cur].status ELSE "none"

Cursor == IF HasState THEN objs[cur].current_step ELSE 0

\* task t starts executing a step in this step of the behaviour: its
\* narration task is created
StartsStep(t) == tasks[t].pc = "execute_step" /\ tasks'[t].pc = "lead_delay"

\* task t starts the action list of its step
StartsActions(t) == tasks[t].pc = "lead_delay" /\ tasks'[t].pc = "actions"

\* C1: while the session stays PAUSED the cursor keeps its value and no
\* step's narration or action list is started.
C1_PausedFreezesWorkflow ==
    [][(Status = "paused" /\ Status' = "paused")
         => /\ Cursor' = Cursor
            /\ \A t \in TaskIds : ~StartsStep(t) /\ ~StartsActions(t)]_vars

\* C2: a question accepted while the session is running and a step is in
\* flight is answered before any later step starts executing.
C2_AnsweredBeforeNextStep ==
    [][\A t \in TaskIds : StartsStep(t) => open_q = 0]_vars

\* C3: when the latest answer requested a jump to a step of the script, the
\* next step that starts executing is that step.
C3_JumpTargetRunsNext ==
    [][\A t \in TaskIds :
          (StartsStep(t) /\ jump_target # NoStep) => tasks'[t].step = jump_target]_vars

\* a stop request has returned: the session was registered and is no longer
StopReturned == ~active /\ tasks # <<>>

\* C4: after stop() has returned no action is dispatched, no step starts
\* and the cursor no longer changes.
C4_StopCancelsWork ==
    [][StopReturned
         => /\ Cursor' = Cursor
            /\ \A t \in TaskIds :
                  /\ ~StartsStep(t)
                  /\ ~StartsActions(t)
                  /\ tasks'[t].act = tasks[t].act]_vars

C6_PauseOnlyWhenRunning ==
    [][(last' \in {"pause", "pause_noop"} /\ Status # "running") => objs' = objs]_vars

\* C7: resume() on a PAUSED session makes it RUNNING and changes nothing
\* else; in any other state it changes nothing.
C7_ResumeOnlyWhenPaused ==
    [][/\ last' = "resume"
            => /\ Status = "paused"
               /\ objs' = [objs EXCEPT ![cur].status = "running"]
       /\ last' = "resume_noop"
            => /\ Status # "paused"
               /\ objs' = objs]_vars

\* C7 witness: resume() took effect on a session paused mid-walkthrough.
C7_Witness ==
    /\ last = "resume"
    /\ Status = "running"
    /\ tasks # <<>>
    /\ tasks[1].pc = "actions"

\* C8: the duration reported at completion is the wall-clock time since the
\* start minus the time the session spent paused.
C8_DurationExcludesPauses ==
    (HasState /\ last = "complete")
        => objs[cur].duration_seconds = (now - objs[cur].started_at) - paused_time

\* C9: start() on a session that was already started does not replace the
\* session state (cursor, script, messages) and launches no second workflow.
C9_StartRequiresIdle ==
    [][/\ (last' = "start" /\ HasState) => (objs' = objs /\ cur' = cur)
       /\ (last' = "launch" /\ tasks # <<>>) => tasks' = tasks]_vars

\* C10: askQuestion while a question is pending does not replace the
\* pending question.
C10_AskWhilePendingRejected ==
    [][(last' \in {"ask", "ask_noop"} /\ HasState /\ objs[cur].has_pending_question)
          => objs'[cur].pending_question = objs[cur].pending_question]_vars

\* task t runs the question node in this step of the behaviour
Handles(t) == tasks[t].pc = "handle_question" /\ tasks'[t].pc # "handle_question"

\* C11: askQuestion on a session that is PAUSED, COMPLETED, FAILED or
\* stopped records no pending question and changes nothing in the session.
C11_AskOnlyWhenRunning ==
    [][(/\ last' \in {"ask", "ask_noop"}
        /\ (Status \in {"paused", "completed", "error"} \/ StopReturned))
          => objs' = objs]_vars

\* C12: whatever the language-model call produced, the question node ends
\* with the session status unchanged and not 'error', and the workflow goes
\* on to the question check and the next step.
C12_AnswerNeverFails ==
    [][\A t \in TaskIds :
          Handles(t) => /\ tasks'[t].pc = "check_questions"
                        /\ objs'[tasks[t].obj].status = Obj(t).status
                        /\ objs'[tasks[t].obj].errors = Obj(t).errors]_vars

\* C13: when the language-model call raised or returned text that is not
\* JSON, the answer spoken and recorded is the fixed fallback answer, the
\* cursor does not move, no error is recorded and the workflow continues.
C13_FallbackOnFailure ==
    [][last' \in {"answer_llm_raised", "answer_unparsable"}
          => \A t \in TaskIds :
                Handles(t) =>
                   /\ tasks'[t].pc = "check_questions"
                   /\ objs'[tasks[t].obj].messages =
                         Obj(t).messages \o <<QuestionMessage(Obj(t).pending_question),
                                              AnswerMessage("fallback")>>
                   /\ objs'[tasks[t].obj].current_step = Obj(t).current_step
                   /\ objs'[tasks[t].obj].status = Obj(t).status
                   /\ objs'[tasks[t].obj].errors = Obj(t).errors]_vars

\* C13 witness: a question was answered after the language-model call
\* raised, at a cursor past the first step.
C13_Witness ==
    /\ last = "answer_llm_raised"
    /\ HasState
    /\ objs[cur].current_step > 0
    /\ Len(objs[cur].messages) >= 2
    /\ objs[cur].messages[Len(objs[cur].messages)].text = "fallback"

\* C14: an answer that asks for a jump to a feature no step's name contains
\* leaves the cursor, the status and the error list as they were; the
\* workflow goes on and the next_step node moves the cursor by one.
C14_JumpNoMatchIsNoop ==
    [][\A t \in TaskIds :
          /\ (last' = "answer_jump_no_match" /\ Handles(t))
               => /\ tasks'[t].pc = "check_questions"
                  /\ objs'[tasks[t].obj].current_step = Obj(t).current_step
                  /\ objs'[tasks[t].obj].status = Obj(t).status
                  /\ objs'[tasks[t].obj].errors = Obj(t).errors
          /\ (tasks[t].pc = "next_step" /\ tasks'[t].pc = "route_continue")
               => objs'[tasks[t].obj].current_step = Obj(t).current_step + 1]_vars

\* C14 witness: such an answer was given with the script not yet exhausted.
C14_Witness ==
    /\ last = "answer_jump_no_match"
    /\ HasState
    /\ objs[cur].current_step = 1
    /\ objs[cur].status = "running"
    /\ \E t \in TaskIds : tasks[t].pc = "check_questions"

\* task t dispatches an action of its step in this step of the behaviour
Dispatches(t) == tasks[t].pc = "actions" /\ tasks'[t].act # tasks[t].act /\ tasks'[t].pc = "actions"

\* task t ends the narration/action pair of its step
FinishesStep(t) == tasks[t].pc = "actions" /\ tasks'[t].pc = "check_questions"

\* C15: a step of N actions in which exactly one action failed ends with an
\* ordered outcome list of length N holding exactly one failed entry, and
\* the workflow goes on.
C15_OutcomeListRecordsFailure ==
    [][\A t \in TaskIds :
          (FinishesStep(t) /\ tasks[t].failed = 1)
             => /\ Len(ActionOutcomes(t)) = Len(StepData(t).browser_actions)
                /\ Cardinality({i \in 1..Len(ActionOutcomes(t)) :
                                   ActionOutcomes(t)[i] = "failed"}) = 1]_vars

\* C16: a failed action changes nothing in the session state and moves the
\* loop to the next action; actions are dispatched one at a time in script
\* order; the step ends only after all of them were dispatched, with its
\* message recorded, the status and the error list untouched.
C16_ContinueOnError ==
    [][\A t \in TaskIds :
          /\ Dispatches(t) => tasks'[t].act = tasks[t].act + 1
          /\ (last' = "dispatch_failed" /\ tasks[t].pc = "actions" /\ tasks'[t] # tasks[t])
                => /\ Dispatches(t)
                   /\ objs' = objs
          /\ FinishesStep(t)
                => /\ tasks[t].act = Len(StepData(t).browser_actions)
                   /\ objs'[tasks[t].obj].status = Obj(t).status
                   /\ objs'[tasks[t].obj].errors = Obj(t).errors
                   /\ objs'[tasks[t].obj].messages = Append(Obj(t).messages, StepMessage(t))]_vars

\* C16 witness: the first action of a two-action step failed and the
\* second one was dispatched after it.
C16_Witness ==
    /\ last = "dispatch"
    /\ tasks # <<>>
    /\ tasks[1].pc = "actions"
    /\ tasks[1].failed = 1
    /\ tasks[1].act = 2
    /\ objs[tasks[1].obj].status = "running"
    /\ objs[tasks[1].obj].errors = <<>>

ExplicitDelayMs(action) == IF action.has_delay THEN action.delay * 1000 ELSE 0

\* C20: with the speech collaborator unavailable the pacing sleep after an
\* action is the action's explicit delay and nothing else.
C20_NoPacingWithoutNarration ==
    [][\A t \in TaskIds :
          (Dispatches(t) /\ tts_mode \in {"absent", "failing"})
             => tasks'[t].pace = ExplicitDelayMs(NextAction(t))]_vars

\* the steps whose narration/action pair ran to its end, in the order they
\* ran
StepsRun(st) ==
    LET RECURSIVE Pick(_)
        Pick(ms) == IF ms = <<>> THEN <<>>
                    ELSE IF Head(ms).step >= 0
                         THEN <<Head(ms).step>> \o Pick(Tail(ms))
                         ELSE Pick(Tail(ms))
    IN  Pick(st.messages)

\* the session ended COMPLETED with the cursor at the end of the script,
\* every step run exactly once in script order and no error recorded
CompletedInOrder ==
    /\ HasState
    /\ objs[cur].status = "completed"
    /\ objs[cur].current_step = Len(objs[cur].demo_script)
    /\ objs[cur].errors = <<>>
    /\ StepsRun(objs[cur]) = [i \in 1..Len(objs[cur].demo_script) |-> i - 1]

\* the session runs a script whose steps are all well-formed
WellFormedScript == HasState /\ objs[cur].demo_script \in WalkScripts

\* C18: a walkthrough of a well-formed script in which every action
\* succeeds and nothing interrupts ends, and stays, COMPLETED with the
\* cursor at the end of the script, each step run exactly once in script
\* order and no error.
C18_ScenarioA == [](WellFormedScript => <>[]CompletedInOrder)

\* C18 witness: the three-step script completed.
C18_Witness ==
    /\ CompletedInOrder
    /\ objs[cur].demo_script = FullDemo
    /\ tasks[1].pc = "done"

\* the speech collaborator is absent or fails on every call
SpeechUnavailable == tts_mode \in {"absent", "failing"}

\* C19: with the speech collaborator absent or failing, every action of
\* every step of a well-formed script is dispatched, one at a time in script order, before the step
\* ends, no step records an error, and the session reaches COMPLETED having
\* run every step.
C19_ScenarioB ==
    /\ [][SpeechUnavailable =>
            \A t \in TaskIds :
               /\ Dispatches(t) => tasks'[t].act = tasks[t].act + 1
               /\ FinishesStep(t) => /\ tasks[t].act = Len(StepData(t).browser_actions)
                                      /\ objs'[tasks[t].obj].errors = <<>>]_vars
    /\ (SpeechUnavailable /\ WellFormedScript) ~> CompletedInOrder

\* C19 witness: a four-step script completed with no audio ever produced.
C19_Witness ==
    /\ SpeechUnavailable
    /\ CompletedInOrder
    /\ Len(objs[cur].demo_script) = 4
    /\ disk_cache = {}

----------------------------------------------------------------------------
(* The voice engine on its own: direct calls of text_to_speech, set_voice  *)
(* and clear_cache on one VoiceEngine.                                     *)

Voices == {DefaultVoice, "EXAV:n", "v2"}

Texts == {"n:b", "b", "hi"}

\* await voice_engine.text_to_speech(text)
Speak(text) ==
    /\ TextToSpeech(text)
    /\ tts_call' = [voice |-> voice_id, text |-> text,
                    audio |-> AudioReturned(audio_cache, disk_cache, tts_mode, voice_id, text),
                    generated |-> Generated(audio_cache, disk_cache, tts_mode, voice_id, text)]
    /\ last' = "text_to_speech"
    /\ UNCHANGED <<sessionVars, tasks, browser, active, callVars, now, obsVars,
                   handlerVars, serverVars>>

\* VoiceEngine.set_voice
SetVoice(v) ==
    /\ voice_id' = v
    /\ last' = "set_voice"
    /\ UNCHANGED <<sessionVars, tasks, browser, audio_cache, disk_cache, tts_mode, active,
                   callVars, now, obsVars, outerVars>>

\* VoiceEngine.clear_cache
ClearCache ==
    /\ audio_cache' = CacheAfterClear(audio_cache)
    /\ last' = "clear_cache"
    /\ UNCHANGED <<sessionVars, tasks, browser, disk_cache, tts_mode, voice_id, active,
                   callVars, now, obsVars, outerVars>>

\* elevenlabs_client.generate starts or stops raising between two calls
\* (the client itself is set once, in __init__)
CollaboratorChanges ==
    /\ tts_mode \in {"ok", "failing"}
    /\ tts_mode' = IF tts_mode = "ok" THEN "failing" ELSE "ok"
    /\ last' = "collaborator"
    /\ UNCHANGED <<sessionVars, tasks, browser, audio_cache, disk_cache, voice_id, active,
                   callVars, now, obsVars, outerVars>>

NextVoice ==
    \/ \E text \in Texts : Speak(text)
    \/ \E v \in Voices : SetVoice(v)
    \/ ClearCache
    \/ CollaboratorChanges

SpecVoice == InitWalk /\ [][NextVoice]_vars

\* audio was generated for the text under the voice and is in a cache
GeneratedBefore(voice, text) ==
    \E e \in audio_cache \cup disk_cache : e.audio = Generate(voice, text)

\* C27: a call of text_to_speech for a text and voice for which audio was
\* generated before returns that audio without calling the generator, and a
\* call never returns audio generated for another voice or another text.
C27_CacheKeyedByPair ==
    [][last' = "text_to_speech" =>
          /\ GeneratedBefore(voice_id, tts_call'.text)
                => /\ tts_call'.audio = Generate(voice_id, tts_call'.text)
                   /\ ~tts_call'.generated
          /\ tts_call'.audio \in {NoAudio, Generate(voice_id, tts_call'.text)}]_vars

\* C40: a text_to_speech call that fails (client absent, or the generator
\* raises) returns empty audio and leaves both caches as they were, and no
\* cache ever holds empty audio; the next call for the same voice and text,
\* made when the generator works, generates.  clear_cache empties the
\* in-memory cache and leaves the files; a call whose key has a file is
\* served that audio without calling the generator, also right after
\* clear_cache and also while the generator fails.
C40_NoFailureCachedClearIsMemoryOnly ==
    /\ [](\A e \in audio_cache \cup disk_cache : e.audio # NoAudio)
    /\ [][/\ last' = "text_to_speech" =>
              LET key == CacheKey(voice_id, tts_call'.text)
                  failed == \/ tts_mode = "absent"
                            \/ /\ tts_mode = "failing"
                               /\ ~Cached(audio_cache, key)
                               /\ ~Cached(disk_cache, key)
              IN  /\ failed => /\ tts_call'.audio = NoAudio
                               /\ audio_cache' = audio_cache
                               /\ disk_cache' = disk_cache
                  /\ (/\ tts_call.audio = NoAudio
                      /\ tts_call.text = tts_call'.text
                      /\ tts_call.voice = voice_id
                      /\ tts_mode = "ok") => /\ tts_call'.generated
                                             /\ tts_call'.audio = Generate(voice_id, tts_call'.text)
                  /\ (tts_mode # "absent" /\ Cached(disk_cache, key))
                        => /\ tts_call'.audio = Lookup(disk_cache, key)
                           /\ ~tts_call'.generated
          /\ last' = "clear_cache" => /\ audio_cache' = {}
                                      /\ disk_cache' = disk_cache]_vars

\* C40 witness: two texts were generated, the in-memory cache was cleared
\* and, with the generator failing, a call for one of them was served from
\* its file.
C40_Witness ==
    /\ last = "text_to_speech"
    /\ tts_mode = "failing"
    /\ tts_call.audio = Generate(tts_call.voice, tts_call.text)
    /\ ~tts_call.generated
    /\ Cardinality(disk_cache) = 2
    /\ Cardinality(audio_cache) = 1

----------------------------------------------------------------------------
(* QuestionHandler.handle_question on its own, as a function of what the   *)
(* language model returned.                                                *)

\* required_fields of _parse_response
RequiredFields == {"answer", "action", "intent", "sentiment", "priority"}

\* the actions handle_question documents
AllowedActions == {"continue", "jump_to_feature", "deep_dive", "schedule_human"}

\* the keys of _get_fallback_response
FallbackKeys == RequiredFields \cup {"feature", "customer_interests"}

LLMTexts ==
    {LLMText(k, {}, "", <<>>) : k \in {"raises", "unparsable", "not_object"}}
    \cup {LLMText("json", present,
                  IF "action" \in present THEN a ELSE "",
                  IF "feature" \in present THEN f ELSE <<>>) :
            present \in SUBSET (RequiredFields \cup {"feature"}),
            a \in AllowedActions \cup {"restart"},
            f \in {<<"a">>, <<"x">>}}

\* handle_question: the result, with the keys it has.  JSON that is no
\* object makes _parse_response or the logging line that follows raise a
\* TypeError, which `except Exception` answers with the fallback.
HandleQuestionResult(x) ==
    IF x.kind \in {"raises", "unparsable", "not_object"}
    THEN [keys |-> FallbackKeys, answer |-> FallbackResponse.answer,
          action |-> FallbackResponse.action, feature_none |-> TRUE, feature |-> <<>>]
    ELSE LET r == HandleQuestionResponse(
                      JsonOutcome("answer" \in x.present, "action" \in x.present, x.action,
                                  "feature" \notin x.present, x.feature))
         IN  [keys |-> x.present \cup {f \in RequiredFields : f \notin x.present},
              answer |-> r.answer, action |-> r.action,
              feature_none |-> r.feature_none, feature |-> r.feature]

\* the language model answers a question
LLMReturns ==
    /\ llm_text' \in LLMTexts
    /\ hq_result' = <<>>
    /\ last' = "llm"
    /\ UNCHANGED <<sessionVars, tasks, browser, voiceVars, active, callVars, now, obsVars,
                   tts_call, serverVars>>

\* result = await question_handler.handle_question(...)
CallHandleQuestion ==
    /\ last = "llm"
    /\ hq_result = <<>>
    /\ hq_result' = <<HandleQuestionResult(llm_text)>>
    /\ last' = "handle_question"
    /\ UNCHANGED <<sessionVars, tasks, browser, voiceVars, active, callVars, now, obsVars,
                   tts_call, llm_text, serverVars>>

NextHandler == LLMReturns \/ CallHandleQuestion

SpecHandler == Init /\ [][NextHandler]_vars

\* C29: the result of handle_question has the keys answer, action, intent,
\* sentiment and priority, its action is one of the four documented
\* actions, and a jump_to_feature result has the feature the model named.
C29_ResultContract ==
    hq_result # <<>> =>
        /\ RequiredFields \subseteq hq_result[1].keys
        /\ hq_result[1].action \in AllowedActions
        /\ (llm_text.kind = "json" /\ "feature" \in llm_text.present
               /\ hq_result[1].action = "jump_to_feature")
              => /\ ~hq_result[1].feature_none
                 /\ hq_result[1].feature = llm_text.feature

----------------------------------------------------------------------------
(* api.main: several sessions under one coordinator.  The n-th copilot    *)
(* the start route creates has session id n (a fresh uuid4); a copilot is  *)
(* its DemoCopilotState, the node its workflow is at, its browser, its     *)
(* VoiceEngine's in-memory cache and the stop requests suspended in its    *)
(* cleanup().  The files of cache_dir (disk_cache) are the same for all.   *)
(* A step of a workflow is one whole graph node.                           *)

\* the session ids requests name: one more than are ever registered
SessionIds == 1..(MaxSessions + 1)

\* a lookup that ignores which registered session was asked for
AnyActiveDemo(demos, id) ==
    IF id \in demos THEN CHOOSE i \in demos : \A j \in demos : i <= j ELSE 0

\* copilot = active_demos.get(session_id); 0 is None
ActiveDemo(demos, id) == IF id \in demos THEN id ELSE 0

\* a stop that leaves the session registered
DemosKept(demos, id) == demos

\* active_demos.pop(session_id, None)
DemosAfterStop(demos, id) == demos \ {id}

\* what handle_question answers in the sessions: no jump, a jump
ServerResponses ==
    {HandleQuestionResponse(o) :
        o \in {JsonOutcome(TRUE, TRUE, "continue", TRUE, <<>>),
               JsonOutcome(TRUE, TRUE, "jump_to_feature", FALSE, <<"c", "a">>)}}

\* DemoCopilot(...) after start_demo returned
NewCopilot(script) ==
    [state |-> NewState(script), pc |-> "created", browser |-> "started",
     audio_cache |-> {}, stopping |-> 0]

\* the answer to a request
Served(route, id, code) ==
    [route |-> route, id |-> id, code |-> code, n |-> served.n + 1]

\* POST /api/demo/start: a copilot is created, started and registered
StartRoute ==
    /\ Len(copilots) < MaxSessions
    /\ served.n < MaxRequests
    /\ \E script \in ServerScripts : copilots' = Append(copilots, NewCopilot(script))
    /\ active_demos' = active_demos \cup {Len(copilots) + 1}
    /\ served' = Served("start", Len(copilots) + 1, 200)
    /\ last' = "start_route"
    /\ UNCHANGED <<sessionVars, tasks, browser, voiceVars, active, callVars, now, obsVars,
                   tts_call, handlerVars>>

\* GET /api/demo/{session_id}/status
StatusRoute(id) ==
    /\ served.n < MaxRequests
    /\ served' = Served("status", id, IF ActiveDemo(active_demos, id) = 0 THEN 404 ELSE 200)
    /\ last' = "status_route"
    /\ UNCHANGED <<sessionVars, tasks, browser, voiceVars, active, callVars, now, obsVars,
                   tts_call, handlerVars, copilots, active_demos>>

\* POST /api/demo/{session_id}/question: copilot.ask_question(question);
\* the n-th request asks question n
QuestionRoute(id) ==
    /\ served.n < MaxRequests
    /\ LET c == ActiveDemo(active_demos, id)
       IN  IF c = 0
           THEN /\ served' = Served("question", id, 404)
                /\ copilots' = copilots
           ELSE /\ served' = Served("question", id, 200)
                /\ copilots' = [copilots EXCEPT ![c].state.has_pending_question = TRUE,
                                                ![c].state.pending_question = served.n + 1]
    /\ last' = "question_route"
    /\ UNCHANGED <<sessionVars, tasks, browser, voiceVars, active, callVars, now, obsVars,
                   tts_call, handlerVars, active_demos>>

\* POST /api/demo/{session_id}/control with 'pause', 'resume' or an action
\* it does not know: the HTTPException(400) of the last is raised inside
\* the try and comes out of `except Exception` as a 500
ControlRoute(id, action) ==
    /\ served.n < MaxRequests
    /\ LET c == ActiveDemo(active_demos, id)
       IN  IF c = 0
           THEN /\ served' = Served(action, id, 404)
                /\ copilots' = copilots
           ELSE IF action = "pause"
           THEN /\ served' = Served(action, id, 200)
                /\ copilots' = [copilots EXCEPT ![c].state.status = PauseStatus(copilots[c].state)]
           ELSE IF action = "resume"
           THEN /\ served' = Served(action, id, 200)
                /\ copilots' = [copilots EXCEPT ![c].state.status = ResumeStatus(copilots[c].state)]
           ELSE /\ served' = Served(action, id, 500)
                /\ copilots' = copilots
    /\ last' = "control_route"
    /\ UNCHANGED <<sessionVars, tasks, browser, voiceVars, active, callVars, now, obsVars,
                   tts_call, handlerVars, active_demos>>

\* POST /api/demo/{session_id}/control with 'stop', up to the await of
\* browser.stop() inside copilot.cleanup()
StopRoute(id) ==
    /\ served.n < MaxRequests
    /\ LET c == ActiveDemo(active_demos, id)
       IN  IF c = 0
           THEN /\ served' = Served("stop", id, 404)
                /\ copilots' = copilots
           ELSE /\ served' = Served("stop", id, 0)
                /\ copilots' = [copilots EXCEPT ![c].browser = BrowserAfterStop(@),
                                                ![c].stopping = @ + 1]
    /\ last' = "stop_route"
    /\ UNCHANGED <<sessionVars, tasks, browser, voiceVars, active, callVars, now, obsVars,
                   tts_call, handlerVars, active_demos>>

\* ... browser.stop() returned: voice.clear_cache(), active_demos.pop and
\* the answer of the stop request
StopRouteEnd(c) ==
    /\ c \in 1..Len(copilots)
    /\ copilots[c].stopping > 0
    /\ copilots' = [copilots EXCEPT ![c].audio_cache = CacheAfterClear(@),
                                    ![c].stopping = @ - 1]
    /\ active_demos' = DemosAfterStop(active_demos, c)
    /\ served' = [route |-> "stop_done", id |-> c, code |-> 200, n |-> served.n]
    /\ last' = "stop_route_end"
    /\ UNCHANGED <<sessionVars, tasks, browser, voiceVars, active, callVars, now, obsVars,
                   tts_call, handlerVars>>

\* the text the node at c.pc hands to text_to_speech, "" if it speaks none
NodeSpeech(c, r) ==
    CASE c.pc = "initialize" -> "greeting"
      [] c.pc = "execute_step" /\ c.state.current_step < Len(c.state.demo_script) ->
            c.state.demo_script[c.state.current_step + 1].narration
      [] c.pc = "handle_question" -> r.answer
      [] OTHER -> ""

\* the DemoCopilotState after the node at c.pc (_run_workflow's first line,
\* its exception handler and its finally included)
NodeState(c, r) ==
    LET st == c.state
    IN  CASE c.pc = "created" -> [st EXCEPT !.status = "running"]
          [] c.pc = "execute_step" ->
                IF st.current_step >= Len(st.demo_script)
                THEN [st EXCEPT !.status = "error", !.errors = Append(@, "IndexError")]
                ELSE IF ~st.demo_script[st.current_step + 1].has_narration
                THEN [st EXCEPT !.errors = Append(@, "Step")]
                ELSE [st EXCEPT !.messages =
                        Append(@, [role |-> "assistant",
                                   text |-> st.demo_script[st.current_step + 1].narration,
                                   q |-> 0, step |-> st.current_step])]
          [] c.pc = "check_questions" ->
                [st EXCEPT !.has_pending_question = PendingAfterCheck(st)]
          [] c.pc = "handle_question" ->
                IF r.action = "jump_to_feature" /\ r.feature_none
                THEN [st EXCEPT !.status = "error", !.errors = Append(@, "AttributeError")]
                ELSE [st EXCEPT !.current_step = CursorAfterAnswer(st, r),
                                !.messages = @ \o <<QuestionMessage(st.pending_question),
                                                    AnswerMessage(r.answer)>>,
                                !.has_pending_question = FALSE,
                                !.pending_question = 0]
          [] c.pc = "next_step" -> [st EXCEPT !.current_step = CursorAfterAdvance(st)]
          [] c.pc = "complete" -> [st EXCEPT !.status = "completed", !.completed_at = now,
                                            !.duration_seconds = Duration(st.started_at, now)]
          [] c.pc = "error_handler" -> [st EXCEPT !.status = "error"]
          [] OTHER -> st

\* the node that runs after the node at c.pc
NodeAfter(c, r) ==
    CASE c.pc = "created" -> "initialize"
      [] c.pc = "initialize" -> "execute_step"
      [] c.pc = "execute_step" ->
            IF c.state.current_step >= Len(c.state.demo_script)
            THEN "cleanup" ELSE "check_questions"
      [] c.pc = "check_questions" -> "route_questions"
      [] c.pc = "route_questions" -> ShouldHandleQuestion(c.state)
      [] c.pc = "handle_question" ->
            IF r.action = "jump_to_feature" /\ r.feature_none
            THEN "cleanup" ELSE "check_questions"
      [] c.pc = "next_step" -> "route_continue"
      [] c.pc = "route_continue" -> ShouldContinue(c.state)
      [] c.pc = "complete" -> EdgeToEnd("complete")
      [] c.pc = "error_handler" -> EdgeToEnd("error_handler")
      [] c.pc = "cleanup" -> "clear_cache"
      [] OTHER -> "done"

\* the workflow of copilot s runs its next node
RunNode(s) ==
    /\ s \in 1..Len(copilots)
    /\ copilots[s].pc # "done"
    /\ \E r \in (IF copilots[s].pc = "handle_question" THEN ServerResponses
                  ELSE {FallbackResponse}) :
         LET c == copilots[s]
             text == NodeSpeech(c, r)
             spoken == c.pc \in {"initialize", "handle_question"} \/
                       (c.pc = "execute_step" /\ c.state.current_step < Len(c.state.demo_script)
                          /\ c.state.demo_script[c.state.current_step + 1].has_narration)
         IN  /\ copilots' = [copilots EXCEPT ![s] =
                   [state |-> NodeState(c, r),
                    pc |-> NodeAfter(c, r),
                    browser |-> IF c.pc = "cleanup" THEN BrowserAfterStop(c.browser)
                                ELSE c.browser,
                    audio_cache |->
                        IF c.pc = "clear_cache" THEN CacheAfterClear(c.audio_cache)
                        ELSE IF spoken
                        THEN MemoryAfterTTS(c.audio_cache, disk_cache, tts_mode, voice_id, text)
                        ELSE c.audio_cache,
                    stopping |-> c.stopping]]
             /\ disk_cache' = IF spoken
                              THEN FilesAfterTTS(c.audio_cache, disk_cache, tts_mode, voice_id, text)
                              ELSE disk_cache
    /\ last' = "run_node"
    /\ UNCHANGED <<sessionVars, tasks, browser, audio_cache, tts_mode, voice_id, active, callVars,
                   now, obsVars, tts_call, handlerVars, active_demos, served>>

NextServer ==
    \/ StartRoute
    \/ \E id \in SessionIds : StatusRoute(id)
    \/ \E id \in SessionIds : QuestionRoute(id)
    \/ \E id \in SessionIds, action \in {"pause", "resume", "rewind"} : ControlRoute(id, action)
    \/ \E id \in SessionIds : StopRoute(id)
    \/ \E c \in SessionIds : StopRouteEnd(c)
    \/ \E s \in SessionIds : RunNode(s)

\* the speech collaborator works, so that the sessions share cache files
SpecServer == InitWith({"ok"}) /\ [][NextServer]_vars

\* C28: a step changes at most one copilot (its session state with the
\* status, cursor, pending question, messages and errors, its browser and
\* its in-memory cache), and a request changes none but the copilot of the
\* session it names; what sessions share is the cache files only.
C28_SessionIsolation ==
    [][/\ \A a, b \in 1..Len(copilots) :
             a # b => (copilots'[a] = copilots[a] \/ copilots'[b] = copilots[b])
       /\ served' # served =>
             \A b \in 1..Len(copilots) : b # served'.id => copilots'[b] = copilots[b]]_vars

\* C28 witness: session 1 was paused while session 2 was running a step
\* whose narration session 1 had already put into the cache files.
C28_Witness ==
    /\ Len(copilots) = 2
    /\ served.route = "pause"
    /\ served.id = 1
    /\ copilots[1].state.status = "paused"
    /\ copilots[2].state.status = "running"
    /\ copilots[2].pc = "check_questions"
    /\ disk_cache # {}

C31_ShareBetweenActions ==
    [][\A t \in TaskIds :
          Dispatches(t) =>
             tasks'[t].elapsed + tasks'[t].pace >=
                (IF NextAction(t).has_delay THEN NextAction(t).delay * 1000
                 ELSE StepBudgetMs(t))]_vars

\* C32: with an estimated narration duration D > 0 and N actions, an
\* action that returned after e milliseconds is followed by a pacing sleep
\* of max(0, share - e), the share being the action's own delay or,
\* without one, 80% of D divided by N.
C32_SleepIsRemainderOfShare ==
    [][\A t \in TaskIds :
          (Dispatches(t) /\ last' = "dispatch" /\ EstimatedDurationMs(StepData(t).words) > 0) =>
             LET D == EstimatedDurationMs(StepData(t).words)
                 N == Len(StepData(t).browser_actions)
                 share == IF NextAction(t).has_delay THEN NextAction(t).delay * 1000
                          ELSE (D * 8) \div (10 * N)
                 e == tasks'[t].elapsed
             IN  tasks'[t].pace = IF share - e > 0 THEN share - e ELSE 0]_vars

\* C33: an action of a type the loop does not know is passed over: it
\* takes no time, makes no browser call, cannot fail and records nothing,
\* and the loop goes on with the action after it.
C33_UnknownActionSkipped ==
    [][\A t \in TaskIds :
          (Dispatches(t)
             /\ NextAction(t).type \notin
                   {"click", "type", "navigate", "upload", "wait", "highlight", "scroll"})
          => /\ last' = "dispatch"
             /\ tasks'[t].act = tasks[t].act + 1
             /\ tasks'[t].failed = tasks[t].failed
             /\ tasks'[t].elapsed = 0
             /\ browser' = browser
             /\ objs' = objs]_vars

\* C33 witness: the loop has just passed the 'hover' action that follows a
\* failed action, and two actions are left.
C33_Witness ==
    /\ last = "dispatch"
    /\ tasks # <<>>
    /\ tasks[1].pc = "actions"
    /\ tasks[1].act = 2
    /\ StepData(1).browser_actions[2].type = "hover"
    /\ tasks[1].failed = 1
    /\ Len(StepData(1).browser_actions) = 4

\* C34: a step starts with its narration task running and no action
\* dispatched; the lead delay before the action task is 50 ms per
\* narration word and at most 2000 ms; actions are dispatched only after
\* it; and the step ends only when the narration is done and every action
\* was dispatched, whichever came first.
C34_SynchronizerOrder ==
    [][\A t \in TaskIds :
          /\ StartsStep(t) =>
                LET words == Obj(t).demo_script[Obj(t).current_step + 1].words
                IN  /\ tasks'[t].nar = "running"
                    /\ tasks'[t].act = 0
                    /\ tasks'[t].lead = IF 50 * words <= 2000 THEN 50 * words ELSE 2000
          /\ StartsActions(t) => /\ tasks[t].nar \in {"running", "done"}
                                 /\ tasks[t].act = 0
                                 /\ tasks'[t].lead = tasks[t].lead
          /\ tasks'[t].act > tasks[t].act => tasks[t].pc = "actions"
          /\ FinishesStep(t) => /\ tasks[t].nar = "done"
                                /\ tasks[t].act = Len(StepData(t).browser_actions)]_vars

\* C34 witness: the narration of a 60-word step finished during the lead
\* delay of 2000 ms, and the action task has started with no action
\* dispatched yet.
C34_Witness ==
    /\ tasks # <<>>
    /\ tasks[1].pc = "actions"
    /\ tasks[1].lead = 2000
    /\ tasks[1].nar = "done"
    /\ tasks[1].act = 0
    /\ StepData(1).words = 60

\* a progress that counts the step at the cursor as done
ProgressOfNextStep(st) ==
    IF Len(st.demo_script) > 0
    THEN (((st.current_step + 1) * 100000) \div Len(st.demo_script) + 5) \div 10
    ELSE 0

\* get_demo_status: round(current_step / total_steps * 100, 2), or 0 when
\* total_steps is 0; in hundredths of a percent
ProgressPercentage(st) ==
    IF Len(st.demo_script) > 0
    THEN ((st.current_step * 100000) \div Len(st.demo_script) + 5) \div 10
    ELSE 0

\* the narration/action pair of task t's step is executing
InFlight(t) == tasks[t].pc \in {"lead_delay", "actions"}

\* the workflow of task t is over: ainvoke returned or raised
Ended(t) == tasks[t].pc \in {"cleanup", "clear_cache", "done"}

\* C35: the cursor is between 0 and the length of the script, a step in
\* flight is a step of the script, and the progress the status route
\* reports is between 0 and 100 percent and is 100 exactly when the cursor
\* is at the end of the script.
C35_CursorBounds ==
    /\ \A i \in 1..Len(objs) :
          /\ objs[i].current_step \in 0..Len(objs[i].demo_script)
          /\ ProgressPercentage(objs[i]) \in 0..10000
          /\ ProgressPercentage(objs[i]) = 10000
                <=> objs[i].current_step = Len(objs[i].demo_script)
    /\ \A t \in TaskIds : InFlight(t) => tasks[t].step \in 0..(Len(Obj(t).demo_script) - 1)

\* C35 witness: the script is exhausted after a jump back to an earlier
\* step, and the progress is 100 percent.
C35_Witness ==
    /\ HasState
    /\ objs[cur].status = "completed"
    /\ objs[cur].current_step = Len(objs[cur].demo_script)
    /\ ProgressPercentage(objs[cur]) = 10000
    /\ \E i \in 1..Len(objs[cur].messages) : objs[cur].messages[i].role = "user"

\* C36: after a step recorded an error the cursor still advances by one,
\* no step is started any more and the session ends with status 'error'
\* and stays there; the status is 'completed' only with an empty error
\* list.
C36_StepErrorEndsInError ==
    /\ [](HasState /\ objs[cur].status = "completed" => objs[cur].errors = <<>>)
    /\ [][HasState /\ objs[cur].errors # <<>> =>
             /\ \A t \in TaskIds : ~StartsStep(t)
             /\ last' = "advance" => Cursor' = Cursor + 1]_vars
    /\ ((HasState /\ objs[cur].errors # <<>>)
          ~> [](HasState /\ objs[cur].status = "error" /\ \A t \in TaskIds : tasks[t].pc = "done"))

\* C36 witness: the only step of the script recorded an error; the cursor
\* is past it and the session ended in 'error'.
C36_Witness ==
    /\ HasState
    /\ objs[cur].status = "error"
    /\ objs[cur].errors = <<"Step">>
    /\ Len(objs[cur].demo_script) = 1
    /\ objs[cur].current_step = 1
    /\ tasks[1].pc = "done"

\* C37: once the status is 'completed' or 'error' it never changes again,
\* whatever pause, resume or question calls follow.
C37_TerminalStatusIsFinal ==
    [][\A i \in 1..Len(objs) :
          objs[i].status \in {"completed", "error"} =>
              /\ i <= Len(objs')
              /\ objs'[i].status = objs[i].status]_vars

\* C38: the workflow reaches cleanup only with the final status written
\* ('completed' or 'error'), whether the script was exhausted, the error
\* route was taken or an exception escaped a node; every workflow that was
\* started ends with the browser stopped; and as long as no question was
\* asked, at most total_steps steps are executed.
C38_CleanupAlwaysRuns ==
    /\ [][\A t \in TaskIds :
            (~Ended(t) /\ tasks'[t].pc = "cleanup")
               => objs'[tasks[t].obj].status \in {"completed", "error"}]_vars
    /\ []((HasState /\ asks = 0) =>
            Len(StepsRun(objs[cur])) + Len(objs[cur].errors) <= Len(objs[cur].demo_script))
    /\ (tasks # <<>>) ~> [](browser = "stopped" /\ \A t \in TaskIds : tasks[t].pc = "done")

\* C38 witness: an exception escaped the question node; the workflow wrote
\* 'error', ran cleanup and ended with the browser stopped.
C38_Witness ==
    /\ tasks # <<>>
    /\ tasks[1].pc = "done"
    /\ browser = "stopped"
    /\ objs[cur].status = "error"
    /\ \E i \in 1..Len(objs[cur].errors) : objs[cur].errors[i] = "AttributeError"

\* C39: an answer that asks for a jump to a feature some step's name
\* contains sets the cursor to the first such step, wherever that step is
\* in the script, the first step included.
C39_JumpReachesEveryStep ==
    [][\A t \in TaskIds :
          (Handles(t) /\ last' = "answer_jump")
             => /\ jump_target' \in 0..(Len(Obj(t).demo_script) - 1)
                /\ objs'[tasks[t].obj].current_step = jump_target']_vars

\* C21: a step ends only after both its narration task and its action
\* task have finished; outside a step neither is running, so the next
\* step's narration and actions start, and the cursor advances, only after
\* both tasks of the step before are complete.
C21_NoPipelining ==
    /\ [](\A t \in TaskIds : ~InFlight(t) => (tasks[t].nar = "idle" /\ tasks[t].act = 0))
    /\ [][\A t \in TaskIds :
            FinishesStep(t) => /\ tasks[t].nar = "done"
                               /\ tasks[t].act = Len(StepData(t).browser_actions)]_vars

\* C21 witness: the second step is in flight, its narration still running
\* with one of its two actions dispatched.
C21_Witness ==
    /\ tasks # <<>>
    /\ tasks[1].pc = "actions"
    /\ tasks[1].step = 1
    /\ tasks[1].nar = "running"
    /\ tasks[1].act = 1

\* C22: at most one step's narration/action pair is executing at a time.
C22_OneStepInFlight ==
    Cardinality({t \in TaskIds : InFlight(t)}) <= 1

\* C23: the cursor stays, or is advanced by one by the next_step node, or
\* is set by the jump of the question node; pause, resume, ask and stop
\* never change it.
C23_CursorMoves ==
    [][\/ Cursor' = Cursor
       \/ /\ Cursor' = Cursor + 1
          /\ last' = "advance"
       \/ /\ last' = "answer_jump"
          /\ \E t \in TaskIds : Handles(t)]_vars

\* C23 witness: the cursor was moved by a jump.
C23_Witness ==
    /\ last = "answer_jump"
    /\ HasState
    /\ jump_target = objs[cur].current_step
    /\ objs[cur].current_step = 2

\* C24: when the status is 'completed' or 'error' the workflow is over,
\* and once it is over no step starts, no action is dispatched and the
\* cursor does not change, whatever is called afterwards.
C24_TerminalStates ==
    /\ []((HasState /\ objs[cur].status \in {"completed", "error"})
            => \A t \in TaskIds : Ended(t))
    /\ [][\A t \in TaskIds :
            Ended(t) => /\ tasks'[t].pc \in {"cleanup", "clear_cache", "done"}
                        /\ tasks'[t].act = tasks[t].act
                        /\ tasks'[t].nar = tasks[t].nar
                        /\ Cursor' = Cursor]_vars

\* C24 witness: a question was asked after the session completed.
C24_Witness ==
    /\ last = "ask"
    /\ tasks # <<>>
    /\ tasks[1].pc = "done"
    /\ objs[cur].status = "completed"
    /\ objs[cur].has_pending_question

\* C25: pause and resume leave the action loop where it is: every dispatch
\* moves it on by exactly one action and the step ends only after the last
\* action, so no action is dispatched twice and none is dropped.
C25_PauseKeepsActions ==
    [][/\ last' \in {"pause", "pause_noop", "resume", "resume_noop"} => tasks' = tasks
       /\ \A t \in TaskIds :
             /\ (tasks[t].pc = "actions" /\ tasks'[t].act # tasks[t].act /\ ~FinishesStep(t))
                   => tasks'[t].act = tasks[t].act + 1
             /\ FinishesStep(t) => tasks[t].act = Len(StepData(t).browser_actions)]_vars

\* C25 witness: the session was paused and resumed between the two actions
\* of a step.
C25_Witness ==
    /\ last = "resume"
    /\ tasks # <<>>
    /\ tasks[1].pc = "actions"
    /\ tasks[1].act = 1
    /\ Len(StepData(1).browser_actions) = 2

\* C26: ask_question leaves the tasks of the step in flight alone, the
\* step ends only after its narration and all its actions, and an answer
\* is spoken only while no step narration is running.
C26_QuestionKeepsStep ==
    [][/\ last' \in {"ask", "ask_noop"} => tasks' = tasks
       /\ \A t \in TaskIds :
             /\ Handles(t) => \A u \in TaskIds : tasks[u].nar # "running"
             /\ FinishesStep(t) => /\ tasks[t].nar = "done"
                                    /\ tasks[t].act = Len(StepData(t).browser_actions)]_vars

\* C26 witness: a question arrived while the narration of a step was
\* running and its actions were not all dispatched.
C26_Witness ==
    /\ last = "ask"
    /\ tasks # <<>>
    /\ tasks[1].pc = "actions"
    /\ tasks[1].nar = "running"
    /\ tasks[1].act < Len(StepData(1).browser_actions)
    /\ objs[cur].has_pending_question

====
